---- MODULE Spec2Model ----
(***************************************************************************)
(* Order-management microservice.  The Order entity's status lifecycle,    *)
(* payment recording and display identifier, OrderItem's receipt and price *)
(* (src/src/entities/order.py, order_status.py); the stored orders as      *)
(* created and read through OrderCreateUseCase and SQLOrderRepository      *)
(* against the catalog service; and OrderController's requests, with the   *)
(* payment service behind OrderPaymentRequestUseCase.                      *)
(***************************************************************************)
EXTENDS Integers, Sequences, FiniteSets, TLC

(***************************************************************************)
(* Bounds                                                                  *)
(***************************************************************************)
\* number of mutating calls (next_status, process_payment) made on one Order
MaxHist == 3
\* number of order rows the orders table may hold
MaxOrders == 1
\* number of default-ingredient entries of a product
MaxDefaults == 2
\* lengths of an item's additional and remove lists
MaxAdditional == 2
MaxRemove == 1
\* number of items an Order is constructed with
MaxItems == 1
\* number of requests sent to the payment service
MaxPayCalls == 2

(***************************************************************************)
(* OrderStatusType and OrderStatus                                         *)
(***************************************************************************)
None == "None"

RECEBIDO == "RECEBIDO"
EM_PREPARACAO == "EM_PREPARACAO"
PRONTO == "PRONTO"
FINALIZADO == "FINALIZADO"
CANCELADO == "CANCELADO"

OrderStatusType == {RECEBIDO, EM_PREPARACAO, PRONTO, FINALIZADO, CANCELADO}

\* the list `flow` of next_status / previous_status
flow == <<RECEBIDO, EM_PREPARACAO, PRONTO, FINALIZADO>>

\* Python list.index: the 0-based position, or None for ValueError
ListIndex(l, x) ==
    IF \E i \in 1..Len(l) : l[i] = x
    THEN (CHOOSE i \in 1..Len(l) : l[i] = x /\ \A j \in 1..(i-1) : l[j] # x) - 1
    ELSE -1

\* Python list subscript l[i]: negative i counts from the end; None for IndexError
ListGet(l, i) ==
    IF 0 <= i /\ i < Len(l) THEN l[i + 1]
    ELSE IF i < 0 /\ -Len(l) <= i THEN l[Len(l) + i + 1]
    ELSE None

\* next_status with the index wrapped around the end of flow
next_status_wrapping(s) ==
    IF ListIndex(flow, s) = -1 THEN None
    ELSE ListGet(flow, (ListIndex(flow, s) + 1) % Len(flow))

\* OrderStatus.next_status: None on ValueError (not in flow) or IndexError
next_status(s) ==
    IF ListIndex(flow, s) = -1 THEN None
    ELSE ListGet(flow, ListIndex(flow, s) + 1)

\* OrderStatus.previous_status: None on ValueError or IndexError
previous_status(s) ==
    IF ListIndex(flow, s) = -1 THEN None
    ELSE ListGet(flow, ListIndex(flow, s) - 1)

(***************************************************************************)
(* Payment dictionaries                                                    *)
(***************************************************************************)
PaymentKeys == {"transaction_id", "approval_status", "date", "message"}
TransactionIds == {"tx1"}
PaymentDates == {"d1"}
PaymentMessages == {"m1"}

\* a dict is a record plus the set of keys it holds; a key it does not hold
\* carries a fixed filler value that is never read
MkPayment(h, t, a, d, m) ==
    [has |-> h, transaction_id |-> t, approval_status |-> a, date |-> d, message |-> m]

Payments ==
    { MkPayment(h, t, a, d, m) :
        h \in SUBSET PaymentKeys, t \in TransactionIds \cup {""}, a \in BOOLEAN,
        d \in PaymentDates \cup {None}, m \in PaymentMessages \cup {""} }

EntityPayments ==
    { p \in Payments :
        /\ ("transaction_id" \in p.has) = (p.transaction_id # "")
        /\ ("approval_status" \notin p.has) => (p.approval_status = FALSE)
        /\ ("date" \in p.has) = (p.date # None)
        /\ ("message" \in p.has) = (p.message # "") }

NoPayment == MkPayment({}, "", FALSE, None, "")

\* dict.get(key, default)
DictGet(p, k, default) == IF k \in p.has THEN p[k] ELSE default

(***************************************************************************)
(* State                                                                   *)
(***************************************************************************)
VARIABLES
    order,   \* the Order entity: status and payment fields
    ctor,    \* the arguments the Order was constructed with
    last,    \* the last call made on the Order and its outcome
    hist,    \* the mutating calls made on the Order since construction
    db,      \* the orders table: row i is the order with internal_id i
    svc,     \* the last request handled by OrderController and its response
    item,    \* one OrderItem object: its constructor arguments and its fields
    agg,     \* one Order object's customer, items and value, and how it was built
    catalog, \* the catalog service: its customers, products and ingredients
    rows,    \* the orders and order_items tables with the items' columns
    res,     \* the last create / get_by_id on the stored orders and its outcome
    pay,     \* the requests sent to the payment service, oldest first
    disp     \* one Order object's internal_id and order_display_id

vars == <<order, ctor, last, hist, db, svc, item, agg, catalog, rows, res, pay, disp>>
entityVars == <<order, ctor, last, hist>>
svcVars == <<db, svc>>
buildVars == <<item, agg>>
storeVars == <<catalog, rows, res>>
sideVars == <<pay, disp>>

(***************************************************************************)
(* Order entity                                                            *)
(***************************************************************************)
StatusArgs == OrderStatusType \cup {None}

\* Order._check_or_create_status
check_or_create_status(status) == IF status = None THEN RECEBIDO ELSE status

\* Order.__post_init__ as far as status and payment fields go: the dataclass
\* defaults for the payment fields, the status as given or RECEBIDO
NewOrder(status, verified) ==
    [status |-> check_or_create_status(status),
     has_payment_verified |-> verified,
     payment_transaction_id |-> "",
     payment_date |-> None,
     payment_message |-> ""]

\* validate_duplicated_payment that never raises
validate_duplicated_payment_never(o) == FALSE

\* Order.validate_duplicated_payment: TRUE when it raises ValueError
validate_duplicated_payment(o) == o.has_payment_verified

\* can_be_cancelled that also accepts PRONTO
can_be_cancelled_until_ready(o) ==
    o.status # None /\ o.status \in {RECEBIDO, EM_PREPARACAO, PRONTO}

\* Order.can_be_cancelled
can_be_cancelled(o) == o.status # None /\ o.status \in {RECEBIDO, EM_PREPARACAO}

\* Order.can_be_finalized
can_be_finalized(o) == o.status # None /\ o.status = PRONTO

\* the fields Order.process_payment assigns before it looks at approval_status
PaymentFieldsSet(o, payment) ==
    [o EXCEPT !.payment_transaction_id = DictGet(payment, "transaction_id", ""),
              !.payment_date = DictGet(payment, "date", None),
              !.payment_message = DictGet(payment, "message", "")]

\* process_payment whose rejection branch leaves has_payment_verified alone
process_payment_rejection_keeps_verified(o, payment) ==
    IF DictGet(payment, "approval_status", FALSE)
    THEN IF validate_duplicated_payment(PaymentFieldsSet(o, payment))
         THEN PaymentFieldsSet(o, payment)
         ELSE [PaymentFieldsSet(o, payment) EXCEPT
                  !.has_payment_verified = TRUE, !.status = EM_PREPARACAO]
    ELSE [PaymentFieldsSet(o, payment) EXCEPT !.status = CANCELADO]

\* Order.process_payment: the order after the call, returned or raised
process_payment(o, payment) ==
    IF DictGet(payment, "approval_status", FALSE)
    THEN IF validate_duplicated_payment(PaymentFieldsSet(o, payment))
         THEN PaymentFieldsSet(o, payment)
         ELSE [PaymentFieldsSet(o, payment) EXCEPT
                  !.has_payment_verified = TRUE, !.status = EM_PREPARACAO]
    ELSE [PaymentFieldsSet(o, payment) EXCEPT
             !.has_payment_verified = FALSE, !.status = CANCELADO]

\* TRUE when Order.process_payment raises
process_payment_raises(o, payment) ==
    DictGet(payment, "approval_status", FALSE) /\ validate_duplicated_payment(o)

Call(op, raised, pre, payment, ret) ==
    [op |-> op, raised |-> raised, pre |-> pre, payment |-> payment, ret |-> ret]

EntityInit ==
    /\ \E status \in StatusArgs, verified \in BOOLEAN :
          /\ ctor = [status |-> status, has_payment_verified |-> verified]
          /\ order = NewOrder(status, verified)
          /\ last = Call("__init__", FALSE, NewOrder(status, verified), NoPayment, None)
    /\ hist = <<>>

\* order.next_status()
OrderNextStatus ==
    /\ Len(hist) < MaxHist
    /\ order' = IF next_status(order.status) # None
                THEN [order EXCEPT !.status = next_status(order.status)]
                ELSE order
    /\ last' = Call("next_status", FALSE, order, NoPayment, next_status(order.status))
    /\ hist' = Append(hist, "next_status")
    /\ UNCHANGED <<ctor, db, svc, buildVars, storeVars, sideVars>>

\* order.process_payment(payment)
OrderProcessPayment ==
    /\ Len(hist) < MaxHist
    /\ \E payment \in EntityPayments :
          /\ order' = process_payment(order, payment)
          /\ last' = Call("process_payment", process_payment_raises(order, payment),
                          order, payment, None)
          /\ hist' = Append(hist, IF DictGet(payment, "approval_status", FALSE)
                                  THEN "process_payment_approved"
                                  ELSE "process_payment_rejected")
    /\ UNCHANGED <<ctor, db, svc, buildVars, storeVars, sideVars>>

\* order.status.previous_status()
StatusPreviousStatus ==
    /\ last' = Call("previous_status", FALSE, order, NoPayment, previous_status(order.status))
    /\ UNCHANGED <<order, ctor, hist, db, svc, buildVars, storeVars, sideVars>>

(***************************************************************************)
(* Stored orders: OrderController -> use cases -> SQLOrderRepository       *)
(***************************************************************************)
OrderIds == 1..MaxOrders

\* the `data` dicts handed to OrderController.process_payment; "date" is an
\* ISO date string when present
ControllerPayments ==
    { p \in Payments :
        /\ ("transaction_id" \in p.has) = (p.transaction_id # "")
        /\ ("approval_status" \notin p.has) => (p.approval_status = FALSE)
        /\ ("date" \in p.has) = (p.date # None)
        /\ ("message" \in p.has) = (p.message # "") }

\* datetime.now() as stored by the controller when the request has no date
Now == "now"

\* session.query(OrderModel).filter(internal_id == id).first(): <<row>> or <<>>
QueryFirst(table, id) == IF id \in DOMAIN table THEN <<table[id]>> ELSE <<>>

\* the OrderModel built by SQLOrderRepository.create from a new Order
OrderModelOf(o) ==
    [status |-> o.status,
     has_payment_verified |-> o.has_payment_verified,
     payment_transaction_id |-> o.payment_transaction_id,
     payment_date |-> o.payment_date,
     payment_message |-> o.payment_message]

\* OrderController.process_payment: the PaymentRequest built from `data`,
\* as the payment_data dict OrderPaymentProcessUseCase.execute hands on
PaymentDataOf(data) ==
    MkPayment(PaymentKeys,
              data.transaction_id,
              data.approval_status,
              IF DictGet(data, "date", None) # None THEN data.date ELSE Now,
              DictGet(data, "message", ""))

\* process_payment whose rejection branch leaves has_payment_verified alone
RepoProcessPayment_keeps_verified(row, payment_data) ==
    IF DictGet(payment_data, "approval_status", FALSE)
    THEN [row EXCEPT
            !.payment_transaction_id = DictGet(payment_data, "transaction_id", ""),
            !.payment_date = DictGet(payment_data, "date", None),
            !.payment_message = DictGet(payment_data, "message", ""),
            !.has_payment_verified = TRUE,
            !.status = EM_PREPARACAO]
    ELSE [row EXCEPT
            !.payment_transaction_id = DictGet(payment_data, "transaction_id", ""),
            !.payment_date = DictGet(payment_data, "date", None),
            !.payment_message = DictGet(payment_data, "message", ""),
            !.status = CANCELADO]

\* SQLOrderRepository.process_payment: the row it commits
RepoProcessPayment(row, payment_data) ==
    IF DictGet(payment_data, "approval_status", FALSE)
    THEN [row EXCEPT
            !.payment_transaction_id = DictGet(payment_data, "transaction_id", ""),
            !.payment_date = DictGet(payment_data, "date", None),
            !.payment_message = DictGet(payment_data, "message", ""),
            !.has_payment_verified = TRUE,
            !.status = EM_PREPARACAO]
    ELSE [row EXCEPT
            !.payment_transaction_id = DictGet(payment_data, "transaction_id", ""),
            !.payment_date = DictGet(payment_data, "date", None),
            !.payment_message = DictGet(payment_data, "message", ""),
            !.has_payment_verified = FALSE,
            !.status = CANCELADO]

\* SQLOrderRepository.cancel: the row it commits
RepoCancel(row) == [row EXCEPT !.status = CANCELADO]

\* SQLOrderRepository.update_status: the row it commits
RepoUpdateStatus(row, status) == [row EXCEPT !.status = status]

Response(op, id, code, pre, data) ==
    [op |-> op, order_id |-> id, status_code |-> code, pre |-> pre, data |-> data]

SvcInit ==
    /\ db = <<>>
    /\ svc = Response("none", 0, 0, <<>>, NoPayment)

\* OrderController.create_order -> OrderCreateUseCase.execute -> SQLOrderRepository.create.
\* accepted: the catalog checks of the use case pass and Order.create succeeds;
\* hydrated: the items are stored and _to_entity rebuilds the saved order.
CreateOrder ==
    /\ Len(db) < MaxOrders
    /\ \E accepted \in BOOLEAN, hydrated \in BOOLEAN :
          IF ~accepted
          THEN /\ db' = db
               /\ svc' = Response("create_order", 0, 400, <<>>, NoPayment)
          ELSE /\ db' = Append(db, OrderModelOf(NewOrder(None, FALSE)))
               /\ svc' = Response("create_order", Len(db) + 1,
                                  IF hydrated THEN 200 ELSE 400, <<>>, NoPayment)
    /\ UNCHANGED <<entityVars, buildVars, storeVars, sideVars>>

\* OrderController.update_order_status -> OrderStatusUpdateUseCase.execute
\* -> SQLOrderRepository.update_status
UpdateOrderStatus ==
    /\ UNCHANGED <<entityVars, buildVars, storeVars, sideVars>>
    /\ \E id \in OrderIds, status \in OrderStatusType, hydrated \in BOOLEAN :
        IF QueryFirst(db, id) = <<>>
        THEN /\ db' = db
             /\ svc' = Response("update_order_status", id, 404, <<>>, NoPayment)
        ELSE /\ db' = [db EXCEPT ![id] = RepoUpdateStatus(db[id], status)]
             /\ svc' = Response("update_order_status", id,
                                IF hydrated THEN 200 ELSE 400, <<db[id]>>, NoPayment)

\* OrderController.cancel_order -> OrderCancelUseCase.execute -> SQLOrderRepository.cancel
CancelOrder ==
    /\ UNCHANGED <<entityVars, buildVars, storeVars, sideVars>>
    /\ \E id \in OrderIds :
        IF QueryFirst(db, id) = <<>>
        THEN /\ db' = db
             /\ svc' = Response("cancel_order", id, 404, <<>>, NoPayment)
        ELSE /\ db' = [db EXCEPT ![id] = RepoCancel(db[id])]
             /\ svc' = Response("cancel_order", id, 200, <<db[id]>>, NoPayment)

\* OrderController.process_payment -> OrderPaymentProcessUseCase.execute
\* -> SQLOrderRepository.process_payment
ProcessPayment ==
    /\ UNCHANGED <<entityVars, buildVars, storeVars, sideVars>>
    /\ \E id \in OrderIds, data \in ControllerPayments, hydrated \in BOOLEAN :
        IF "transaction_id" \notin data.has \/ "approval_status" \notin data.has
        THEN \* KeyError, caught by `except Exception`
             /\ db' = db
             /\ svc' = Response("process_payment", id, 500, QueryFirst(db, id), data)
        ELSE IF QueryFirst(db, id) = <<>>
        THEN /\ db' = db
             /\ svc' = Response("process_payment", id, 404, <<>>, data)
        ELSE /\ db' = [db EXCEPT ![id] = RepoProcessPayment(db[id], PaymentDataOf(data))]
             /\ svc' = Response("process_payment", id,
                                IF hydrated THEN 200 ELSE 400, <<db[id]>>, data)

(***************************************************************************)
(* Money, Ingredient, Product (src/src/entities)                           *)
(***************************************************************************)
\* Money.amount is a Decimal; amounts are counted in thousandths, so that an
\* amount with three decimal places can be told from one with two
Cent == 10

\* Money._is_valid_amount: non-negative, at most 2 decimal places
is_valid_amount(amount) == amount >= 0 /\ amount % Cent = 0

\* Money._format: quantize to 0.01, ROUND_HALF_EVEN
MoneyFormat(amount) ==
    LET q == amount \div Cent
        r == amount % Cent
    IN  IF 2 * r < Cent THEN q * Cent
        ELSE IF 2 * r > Cent THEN (q + 1) * Cent
        ELSE IF q % 2 = 0 THEN q * Cent ELSE (q + 1) * Cent

\* Money.value: the amount as the float stored in a Float column
MoneyValue(amount) == MoneyFormat(amount)

\* Python None where an int or a Money is optional
NoneId == -1
NoneMoney == -1

\* `not x` for an Optional[int]
Falsy(id) == id = NoneId \/ id = 0

\* the catalog's ingredients; dataclass equality is equality of the records
IngredientIds == {1, 2, 3}
Ing(id) == [internal_id |-> id, price |-> 100 * id, is_active |-> TRUE]
Ingredients == { Ing(id) : id \in IngredientIds }

\* Ingredients built without an internal_id (the dataclass default None); the
\* two differ in price, so they are unequal as dataclasses
NoIdIngredient == [internal_id |-> NoneId, price |-> 50, is_active |-> TRUE]
OtherNoIdIngredient == [internal_id |-> NoneId, price |-> 60, is_active |-> TRUE]

\* ProductReceiptItem(ingredient, quantity)
ProductReceiptItem(ingredient, quantity) ==
    [ingredient |-> ingredient, quantity |-> quantity]

SeqsUpTo(S, n) == UNION { [1..k -> S] : k \in 0..n }

\* the quantities a catalog product gives a default ingredient
Quantities == {0, 1, 2}

\* Product.default_ingredient: a non-empty list of ProductReceiptItems
DefaultIngredientLists ==
    SeqsUpTo({ ProductReceiptItem(i, q) : i \in Ingredients, q \in Quantities },
             MaxDefaults) \ {<<>>}

MkProduct(id, price, active, defaults) ==
    [internal_id |-> id, price |-> price, is_active |-> active,
     default_ingredient |-> defaults]

(***************************************************************************)
(* OrderItem (src/src/entities/order.py)                                   *)
(***************************************************************************)
RECURSIVE Repeat(_, _)
Repeat(x, n) == IF n <= 0 THEN <<>> ELSE <<x>> \o Repeat(x, n - 1)

\* OrderItem._serialize_default_ingredients
RECURSIVE serialize_default_ingredients(_)
serialize_default_ingredients(defaults) ==
    IF defaults = <<>> THEN <<>>
    ELSE LET it == Head(defaults)
         IN  (IF it.quantity > 1 THEN Repeat(it.ingredient, it.quantity)
                                 ELSE <<it.ingredient>>)
             \o serialize_default_ingredients(Tail(defaults))

\* [x for x in l if x not in removed]
RECURSIVE FilterNotIn(_, _)
FilterNotIn(l, removed) ==
    IF l = <<>> THEN <<>>
    ELSE (IF \E k \in DOMAIN removed : removed[k] = Head(l) THEN <<>> ELSE <<Head(l)>>)
         \o FilterNotIn(Tail(l), removed)

\* the ingredient_count dict of _generate_item_receipt, in insertion order:
\* one entry per key internal_id, holding the first ingredient seen with it
RECURSIVE GroupByInternalId(_, _)
GroupByInternalId(l, acc) ==
    IF l = <<>> THEN acc
    ELSE LET ing == Head(l)
             hit == { k \in DOMAIN acc : acc[k].ingredient.internal_id = ing.internal_id }
         IN  IF hit = {}
             THEN GroupByInternalId(Tail(l), Append(acc, ProductReceiptItem(ing, 1)))
             ELSE LET k == CHOOSE k \in hit : TRUE
                  IN  GroupByInternalId(Tail(l),
                         [acc EXCEPT ![k].quantity = acc[k].quantity + 1])

\* _generate_item_receipt that regenerates whatever receipt the item holds
generate_item_receipt_always(item_receipt, product, additional, remove) ==
    GroupByInternalId(
        FilterNotIn(serialize_default_ingredients(product.default_ingredient), remove)
        \o additional, <<>>)

\* _generate_item_receipt that keeps the removed default ingredients
generate_item_receipt_keeping_removed(item_receipt, product, additional, remove) ==
    IF item_receipt # <<>> THEN item_receipt
    ELSE GroupByInternalId(
            serialize_default_ingredients(product.default_ingredient) \o additional, <<>>)

\* OrderItem._generate_item_receipt: the receipt the item holds afterwards
generate_item_receipt(item_receipt, product, additional, remove) ==
    IF item_receipt # <<>> THEN item_receipt
    ELSE GroupByInternalId(
            FilterNotIn(serialize_default_ingredients(product.default_ingredient), remove)
            \o additional, <<>>)

RECURSIVE SumPrices(_)
SumPrices(l) == IF l = <<>> THEN 0 ELSE Head(l).price + SumPrices(Tail(l))

\* _calculate_price that also charges the removed ingredients
calculate_price_with_removed(price, product, additional, remove) ==
    IF price # 0 THEN price
    ELSE product.price + SumPrices(additional) + SumPrices(remove)

\* OrderItem._calculate_price: the price the item holds afterwards
calculate_price(price, product, additional, remove) ==
    IF price # 0 THEN price
    ELSE product.price + SumPrices(additional)

\* OrderItem(...): __post_init__ generates the receipt, then the price
NewOrderItem(product, additional, remove, item_receipt, price) ==
    [product |-> product,
     additional_ingredient |-> additional,
     remove_ingredient |-> remove,
     item_receipt |-> generate_item_receipt(item_receipt, product, additional, remove),
     price |-> calculate_price(price, product, additional, remove)]

\* the arguments OrderItem is constructed with
ItemProducts ==
    { MkProduct(1, 1000, TRUE, d) : d \in DefaultIngredientLists }
ItemReceiptArgs == { <<>>, <<ProductReceiptItem(Ing(1), 1)>> }
ItemPriceArgs == { 0, 550 }

ItemCall(op, product, additional, remove, item_receipt, price, obj) ==
    [op |-> op,
     args |-> [product |-> product, additional_ingredient |-> additional,
               remove_ingredient |-> remove, item_receipt |-> item_receipt,
               price |-> price],
     obj |-> obj]

NoProduct == MkProduct(NoneId, 0, FALSE, <<>>)
NoItem == ItemCall("none", NoProduct, <<>>, <<>>, <<>>, 0,
                   [product |-> NoProduct, additional_ingredient |-> <<>>,
                    remove_ingredient |-> <<>>, item_receipt |-> <<>>, price |-> 0])

ItemIdle == item = NoItem

\* OrderItem(order_internal_id, product, additional_ingredient, remove_ingredient
\*           [, item_receipt][, price])
OrderItemInit ==
    /\ item.op = "none"
    /\ \E product \in ItemProducts,
          additional \in SeqsUpTo(Ingredients, MaxAdditional),
          remove \in SeqsUpTo(Ingredients, MaxRemove),
          item_receipt \in ItemReceiptArgs,
          price \in ItemPriceArgs :
          item' = ItemCall("__init__", product, additional, remove, item_receipt, price,
                           NewOrderItem(product, additional, remove, item_receipt, price))
    /\ UNCHANGED <<entityVars, svcVars, agg, storeVars, sideVars>>

\* item._generate_item_receipt() on an existing OrderItem: the item afterwards
GenerateItemReceipt(obj) ==
    [obj EXCEPT !.item_receipt =
        generate_item_receipt(obj.item_receipt, obj.product,
                              obj.additional_ingredient, obj.remove_ingredient)]

\* item.get_item_receipt(): the item afterwards; its receipt is what is returned
GetItemReceipt(obj) ==
    IF obj.item_receipt = <<>> THEN GenerateItemReceipt(obj) ELSE obj

\* the OrderItems the receipt calls are made on: as constructed from these
ReceiptDefaults ==
    { <<ProductReceiptItem(Ing(1), 2), ProductReceiptItem(Ing(2), 1)>>,
      <<ProductReceiptItem(Ing(1), 1)>>,
      <<ProductReceiptItem(NoIdIngredient, 1)>> }
ReceiptAdditional ==
    UNION { [1..n -> {Ing(3), NoIdIngredient, OtherNoIdIngredient}] : n \in 0..2 }
ReceiptRemove == { <<>>, <<Ing(1)>> }

ReceiptItemInit ==
    \E defaults \in ReceiptDefaults, additional \in ReceiptAdditional,
       remove \in ReceiptRemove, item_receipt \in ItemReceiptArgs :
        item = ItemCall("__init__", MkProduct(1, 1000, TRUE, defaults), additional,
                        remove, item_receipt, 0,
                        NewOrderItem(MkProduct(1, 1000, TRUE, defaults), additional,
                                     remove, item_receipt, 0))

\* item.additional_ingredient = ...; item.remove_ingredient = ...
OrderItemSetIngredients ==
    /\ item.op = "__init__"
    /\ \E additional \in {<<>>, <<Ing(2)>>}, remove \in {<<>>, <<Ing(2)>>} :
          item' = [item EXCEPT !.op = "set_ingredients",
                               !.obj.additional_ingredient = additional,
                               !.obj.remove_ingredient = remove]
    /\ UNCHANGED <<entityVars, svcVars, agg, storeVars, sideVars>>

\* item._generate_item_receipt()
OrderItemGenerateItemReceipt ==
    /\ item.op \in {"__init__", "set_ingredients"}
    /\ item' = [item EXCEPT !.op = "_generate_item_receipt",
                            !.obj = GenerateItemReceipt(item.obj)]
    /\ UNCHANGED <<entityVars, svcVars, agg, storeVars, sideVars>>

\* item.get_item_receipt()
OrderItemGetItemReceipt ==
    /\ item.op \in {"__init__", "set_ingredients"}
    /\ item' = [item EXCEPT !.op = "get_item_receipt",
                            !.obj = GetItemReceipt(item.obj)]
    /\ UNCHANGED <<entityVars, svcVars, agg, storeVars, sideVars>>

(***************************************************************************)
(* Order: customer, items and value (src/src/entities/order.py)            *)
(***************************************************************************)
\* `not item.product or not item.product.is_active` for some item
HasInactiveProduct(order_items) ==
    \E k \in DOMAIN order_items : ~order_items[k].product.is_active

\* `self.value and self.value.amount <= 0`: a Money is truthy whatever its amount
ValueNotPositive(value) == value # NoneMoney /\ value <= 0

\* Order._validate_business_rules_skip_active_check that still checks is_active
validate_business_rules_skip_checking_active(customer_internal_id, order_items, value) ==
    \/ Falsy(customer_internal_id)
    \/ order_items = <<>>
    \/ HasInactiveProduct(order_items)
    \/ ValueNotPositive(value)

\* Order._validate_business_rules: TRUE when it raises ValueError
validate_business_rules(customer_internal_id, order_items, value) ==
    \/ Falsy(customer_internal_id)
    \/ order_items = <<>>
    \/ HasInactiveProduct(order_items)
    \/ ValueNotPositive(value)

\* Order._validate_business_rules_skip_active_check: TRUE when it raises ValueError
validate_business_rules_skip_active_check(customer_internal_id, order_items, value) ==
    \/ Falsy(customer_internal_id)
    \/ order_items = <<>>
    \/ ValueNotPositive(value)

\* calculate_value that leaves the total at Money(0.0)
calculate_value_zero(order_items) == 0

\* Order.calculate_value: the value it assigns
calculate_value(order_items) == SumPrices(order_items)

\* Order.__post_init__ raises
OrderInitRaises(customer_internal_id, order_items, value, skip) ==
    IF ~skip
    THEN validate_business_rules(customer_internal_id, order_items, value)
    ELSE validate_business_rules_skip_active_check(customer_internal_id, order_items, value)

\* the customer, items and value of the Order that __post_init__ leaves
NewOrderAggregate(customer_internal_id, order_items, value) ==
    [customer_internal_id |-> customer_internal_id,
     order_items |-> order_items,
     value |-> IF value # NoneMoney THEN value ELSE calculate_value(order_items)]

\* the OrderItems an Order is constructed from
OrderProducts ==
    { MkProduct(id, price, active, <<ProductReceiptItem(Ing(1), 1)>>) :
        id \in {1}, price \in {0, 1000}, active \in BOOLEAN }
OrderItems ==
    { NewOrderItem(product, additional, <<>>, <<>>, 0) :
        product \in OrderProducts, additional \in {<<>>, <<Ing(1)>>} }
CustomerIdArgs == { NoneId, 0, 7 }
ValueArgs == { NoneMoney, 0, 1500 }
ItemPrices == { 0, 250 }

AggCall(op, raised, customer_internal_id, value, skip, obj) ==
    [op |-> op, raised |-> raised,
     args |-> [customer_internal_id |-> customer_internal_id, value |-> value,
               skip |-> skip],
     obj |-> obj]

NoAgg == AggCall("none", FALSE, NoneId, NoneMoney, FALSE,
                 [customer_internal_id |-> NoneId, order_items |-> <<>>,
                  value |-> NoneMoney])

AggIdle == agg = NoAgg

\* Order(customer_internal_id, order_items[, value][, _skip_active_validation])
OrderInit ==
    /\ agg.op = "none"
    /\ \E customer_internal_id \in CustomerIdArgs,
          order_items \in SeqsUpTo(OrderItems, MaxItems),
          value \in ValueArgs,
          skip \in BOOLEAN :
          agg' = AggCall("__init__",
                         OrderInitRaises(customer_internal_id, order_items, value, skip),
                         customer_internal_id, value, skip,
                         NewOrderAggregate(customer_internal_id, order_items, value))
    /\ UNCHANGED <<entityVars, svcVars, item, storeVars, sideVars>>

\* order.order_items[k].price = Money(price)
OrderItemSetPrice ==
    /\ agg.op # "none" /\ ~agg.raised
    /\ \E k \in DOMAIN agg.obj.order_items, price \in ItemPrices :
          agg' = [agg EXCEPT !.op = "set_item_price",
                             !.obj.order_items[k].price = price]
    /\ UNCHANGED <<entityVars, svcVars, item, storeVars, sideVars>>

\* order.order_items.append(item)
OrderItemsAppend ==
    /\ agg.op # "none" /\ ~agg.raised
    /\ Len(agg.obj.order_items) <= MaxItems
    /\ \E it \in OrderItems :
          agg' = [agg EXCEPT !.op = "append_item",
                             !.obj.order_items = Append(@, it)]
    /\ UNCHANGED <<entityVars, svcVars, item, storeVars, sideVars>>

\* order.calculate_value()
OrderCalculateValue ==
    /\ agg.op # "none" /\ ~agg.raised
    /\ agg' = [agg EXCEPT !.op = "calculate_value",
                          !.obj.value = calculate_value(agg.obj.order_items)]
    /\ UNCHANGED <<entityVars, svcVars, item, storeVars, sideVars>>

(***************************************************************************)
(* The catalog service as the order service sees it                        *)
(* (http_ingredient_repository.py, http_product_repository.py,             *)
(*  OrderCreateUseCase._fetch_catalog)                                     *)
(***************************************************************************)
ProductIds == {1}

\* a catalog entry answers ("ok"), is unknown ("missing", 404) or the request
\* for it fails ("error": not reachable, non-2xx)
CatalogIngredient(state, active, price) ==
    [state |-> state, is_active |-> active, price |-> price]

\* default_ingredient of a catalog product: ingredient_internal_id and quantity
CatalogDefault(id, quantity) == [ingredient_internal_id |-> id, quantity |-> quantity]

CatalogProduct(state, active, price, defaults) ==
    [state |-> state, is_active |-> active, price |-> price,
     default_ingredient |-> defaults]

\* hides_inactive: with include_inactive=false the service answers 404 for an
\* inactive entity (TRUE) or returns it with is_active false (FALSE)
BaseCatalog ==
    [hides_inactive |-> FALSE,
     products |-> [pid \in ProductIds |->
        CatalogProduct("ok", TRUE, 1000, <<CatalogDefault(1, 2), CatalogDefault(2, 1)>>)],
     ingredients |-> [id \in IngredientIds |-> CatalogIngredient("ok", TRUE, Ing(id).price)]]

IngredientChanges(e) ==
    { [e EXCEPT !.is_active = FALSE], [e EXCEPT !.state = "missing"],
      [e EXCEPT !.state = "error"], [e EXCEPT !.price = e.price + 50] }

ProductChanges(e) ==
    { [e EXCEPT !.is_active = FALSE], [e EXCEPT !.state = "missing"],
      [e EXCEPT !.state = "error"], [e EXCEPT !.price = 0],
      [e EXCEPT !.price = e.price + 200],
      [e EXCEPT !.default_ingredient = <<CatalogDefault(1, 1)>>],
      [e EXCEPT !.default_ingredient = <<CatalogDefault(3, 1)>>] }

\* the base catalog after both default ingredients of the product were deactivated
DefaultsDeactivated ==
    [BaseCatalog EXCEPT !.ingredients[1].is_active = FALSE,
                        !.ingredients[2].is_active = FALSE]

\* the catalogs a request may find: the base catalog, one entry changed, or
\* the product's default ingredients deactivated
Catalogs ==
    LET changed ==
          {BaseCatalog, DefaultsDeactivated}
          \cup UNION { { [BaseCatalog EXCEPT !.ingredients[id] = e] :
                           e \in IngredientChanges(BaseCatalog.ingredients[id]) } :
                       id \in IngredientIds }
          \cup UNION { { [BaseCatalog EXCEPT !.products[pid] = e] :
                           e \in ProductChanges(BaseCatalog.products[pid]) } :
                       pid \in ProductIds }
    IN  { [c EXCEPT !.hides_inactive = h] : c \in changed, h \in BOOLEAN }

\* the response to GET /<kind>/by-id/<id>?include_inactive=<flag>
CatalogGet(c, entry, include_inactive) ==
    IF entry.state = "error" THEN "error"
    ELSE IF entry.state = "missing" THEN "404"
    ELSE IF ~entry.is_active /\ ~include_inactive /\ c.hides_inactive THEN "404"
    ELSE "ok"

\* Ingredient(**data) built from the catalog's JSON
IngredientOf(c, id) ==
    [internal_id |-> id, price |-> c.ingredients[id].price,
     is_active |-> c.ingredients[id].is_active]

\* HTTPIngredientRepository.find_by_id: an Ingredient, None, or ValueError
IngredientFindById(c, id, include_inactive) ==
    LET r == CatalogGet(c, c.ingredients[id], include_inactive)
    IN  [status |-> IF r = "ok" THEN "ok" ELSE IF r = "404" THEN "none" ELSE "raise",
         value |-> IngredientOf(c, id)]

\* the default_ingredients list HTTPProductRepository.find_by_id builds:
\* a default ingredient answered with 404 is left out
RECURSIVE LoadDefaults(_, _)
LoadDefaults(c, defaults) ==
    IF defaults = <<>> THEN <<>>
    ELSE LET d == Head(defaults)
         IN  (IF CatalogGet(c, c.ingredients[d.ingredient_internal_id], FALSE) = "ok"
              THEN <<ProductReceiptItem(IngredientOf(c, d.ingredient_internal_id),
                                        d.quantity)>>
              ELSE <<>>)
             \o LoadDefaults(c, Tail(defaults))

\* HTTPProductRepository.find_by_id(id, include_inactive=True):
\* a Product, None, or ValueError (from _get or from Product's validation)
ProductFindById(c, pid) ==
    LET e == c.products[pid]
        r == CatalogGet(c, e, TRUE)
        defaults == LoadDefaults(c, e.default_ingredient)
    IN  [status |->
            IF r = "error" THEN "raise"
            ELSE IF r = "404" THEN "none"
            ELSE IF \E k \in DOMAIN e.default_ingredient :
                       CatalogGet(c, c.ingredients[e.default_ingredient[k].ingredient_internal_id],
                                  FALSE) = "error"
                 THEN "raise"
            ELSE IF defaults = <<>> THEN "raise"
            ELSE "ok",
         value |-> MkProduct(pid, e.price, e.is_active, defaults)]

(***************************************************************************)
(* Stored orders with their items: OrderCreateUseCase.execute,             *)
(* SQLOrderRepository.create / get_by_id / _to_entity                      *)
(***************************************************************************)
\* the customer JSON the catalog answers with, or no answer
Customer(state, active, anonymous, email, document) ==
    [state |-> state, is_active |-> active, is_anonymous |-> anonymous,
     email |-> email, document |-> document]

CustomerResponses ==
    { Customer("missing", FALSE, FALSE, "", ""), Customer("error", FALSE, FALSE, "", "") }
    \cup { Customer("ok", a, n, e, d) :
             a \in BOOLEAN, n \in BOOLEAN, e \in {"", "a@b.c"}, d \in {"", "doc"} }

\* the customer check without the email / document rule
CustomerRaises_active_only(customer) ==
    customer.state # "ok" \/ ~customer.is_active

\* OrderCreateUseCase.execute raises on the customer
CustomerRaises(customer) ==
    \/ customer.state # "ok"
    \/ ~customer.is_active
    \/ (~customer.is_anonymous /\ (customer.email = "" \/ customer.document = ""))

\* OrderItemRequest
ItemRequest(pid, additional, remove) ==
    [product_internal_id |-> pid,
     additional_ingredient_internal_ids |-> additional,
     remove_ingredient_internal_ids |-> remove]

ItemRequests ==
    { ItemRequest(pid, additional, remove) :
        pid \in ProductIds,
        additional \in {<<>>, <<3>>, <<3, 3>>, <<1>>},
        remove \in {<<>>, <<1>>, <<2>>} }

\* OrderCreateRequest
OrderRequest(customer_internal_id, order_items) ==
    [customer_internal_id |-> customer_internal_id, order_items |-> order_items]

\* requests with no item, with one item, and with two items
OrderRequests ==
    { OrderRequest(7, <<>>) }
    \cup { OrderRequest(7, <<ir>>) : ir \in ItemRequests }
    \cup { OrderRequest(7, <<ItemRequest(1, a1, <<>>), ItemRequest(1, a2, <<>>)>>) :
             a1 \in {<<>>, <<3>>}, a2 \in {<<>>, <<3>>} }

\* execute raises while fetching and building the product of an item
UseCaseProductRaises(c, pid) ==
    LET e == c.products[pid]
    IN  \/ CatalogGet(c, e, FALSE) # "ok"
        \/ ~e.is_active
        \/ \E k \in DOMAIN e.default_ingredient :
              CatalogGet(c, c.ingredients[e.default_ingredient[k].ingredient_internal_id],
                         FALSE) # "ok"
        \/ e.default_ingredient = <<>>

\* the same check without the is_active test
UseCaseIngredientRaises_missing_only(c, id) ==
    CatalogGet(c, c.ingredients[id], FALSE) # "ok"

\* execute raises while fetching an additional or remove ingredient
UseCaseIngredientRaises(c, id) ==
    \/ CatalogGet(c, c.ingredients[id], FALSE) # "ok"
    \/ ~c.ingredients[id].is_active

UseCaseItemRaises(c, ir) ==
    \/ UseCaseProductRaises(c, ir.product_internal_id)
    \/ \E k \in DOMAIN ir.additional_ingredient_internal_ids :
          UseCaseIngredientRaises(c, ir.additional_ingredient_internal_ids[k])
    \/ \E k \in DOMAIN ir.remove_ingredient_internal_ids :
          UseCaseIngredientRaises(c, ir.remove_ingredient_internal_ids[k])

\* the OrderItem execute builds for an item request
UseCaseItem(c, ir) ==
    LET e == c.products[ir.product_internal_id]
    IN  NewOrderItem(
           MkProduct(ir.product_internal_id, e.price, e.is_active,
                     LoadDefaults(c, e.default_ingredient)),
           [k \in DOMAIN ir.additional_ingredient_internal_ids |->
               IngredientOf(c, ir.additional_ingredient_internal_ids[k])],
           [k \in DOMAIN ir.remove_ingredient_internal_ids |->
               IngredientOf(c, ir.remove_ingredient_internal_ids[k])],
           <<>>, 0)

\* SQLOrderRepository._serialize_ingredient_internal_ids
RECURSIVE serialize_ingredient_internal_ids(_)
serialize_ingredient_internal_ids(ingredients) ==
    IF ingredients = <<>> THEN <<>>
    ELSE (IF Falsy(Head(ingredients).internal_id) THEN <<>>
          ELSE <<Head(ingredients).internal_id>>)
         \o serialize_ingredient_internal_ids(Tail(ingredients))

\* SQLOrderRepository._deserialize_ingredient_internal_ids
deserialize_ingredient_internal_ids(ingredient_internal_ids) ==
    IF ingredient_internal_ids # <<>> THEN ingredient_internal_ids ELSE <<>>

\* SQLOrderRepository._serialize_item_receipt
RECURSIVE serialize_item_receipt(_)
serialize_item_receipt(item_receipt) ==
    IF item_receipt = <<>> THEN <<>>
    ELSE (IF Falsy(Head(item_receipt).ingredient.internal_id) THEN <<>>
          ELSE <<CatalogDefault(Head(item_receipt).ingredient.internal_id,
                                Head(item_receipt).quantity)>>)
         \o serialize_item_receipt(Tail(item_receipt))

\* an OrderItemModel with the two identifier lists in each other's column
OrderItemModelOf_swapped_lists(it) ==
    [product_internal_id |-> it.product.internal_id,
     additional_ingredient_internal_ids |->
        serialize_ingredient_internal_ids(it.remove_ingredient),
     remove_ingredient_internal_ids |->
        serialize_ingredient_internal_ids(it.additional_ingredient),
     item_receipt |->
        serialize_item_receipt(
           generate_item_receipt(it.item_receipt, it.product,
                                 it.additional_ingredient, it.remove_ingredient)),
     price |-> MoneyValue(it.price)]

\* the OrderItemModel SQLOrderRepository.create stores for an item
OrderItemModelOf(it) ==
    [product_internal_id |-> it.product.internal_id,
     additional_ingredient_internal_ids |->
        serialize_ingredient_internal_ids(it.additional_ingredient),
     remove_ingredient_internal_ids |->
        serialize_ingredient_internal_ids(it.remove_ingredient),
     item_receipt |->
        serialize_item_receipt(
           generate_item_receipt(it.item_receipt, it.product,
                                 it.additional_ingredient, it.remove_ingredient)),
     price |-> MoneyValue(it.price)]

\* the stored order: the columns read back by _to_entity, the item rows, and
\* (not a column) the OrderItems the order was created from
StoredOrder(o, item_models) ==
    [customer_internal_id |-> o.customer_internal_id,
     value |-> MoneyValue(o.value),
     order_items |-> item_models,
     created |-> o.order_items]

\* _load_products / product_cache.get: the product of an item is usable
ProductResolved(c, pid) ==
    ~Falsy(pid) /\ ProductFindById(c, pid).status = "ok"

\* _load_ingredients: the ingredient is in ingredient_cache
IngredientCached(c, id) == IngredientFindById(c, id, TRUE).status = "ok"

\* the additional / remove list _to_entity rebuilds from the cache
RECURSIVE CacheLookup(_, _)
CacheLookup(c, ids) ==
    IF ids = <<>> THEN <<>>
    ELSE (IF IngredientCached(c, Head(ids)) THEN <<IngredientOf(c, Head(ids))>> ELSE <<>>)
         \o CacheLookup(c, Tail(ids))

\* the loop of _deserialize_item_receipt when no lookup raises
RECURSIVE ReceiptItems(_, _)
ReceiptItems(c, data) ==
    IF data = <<>> THEN <<>>
    ELSE LET d == Head(data)
         IN  (IF ~Falsy(d.ingredient_internal_id)
                 /\ IngredientFindById(c, d.ingredient_internal_id, TRUE).status = "ok"
              THEN <<ProductReceiptItem(IngredientOf(c, d.ingredient_internal_id),
                                        d.quantity)>>
              ELSE <<>>)
             \o ReceiptItems(c, Tail(data))

\* the item_receipt _to_entity hands to OrderItem: _deserialize_item_receipt
\* calls find_by_id for each entry, and a lookup that raises leaves []
deserialize_item_receipt(c, data) ==
    IF \E k \in DOMAIN data :
          /\ ~Falsy(data[k].ingredient_internal_id)
          /\ IngredientFindById(c, data[k].ingredient_internal_id, TRUE).status = "raise"
    THEN <<>>
    ELSE ReceiptItems(c, data)

\* the OrderItem _to_entity builds from an item row
HydratedItem(c, im) ==
    NewOrderItem(ProductFindById(c, im.product_internal_id).value,
                 CacheLookup(c, deserialize_ingredient_internal_ids(
                                   im.additional_ingredient_internal_ids)),
                 CacheLookup(c, deserialize_ingredient_internal_ids(
                                   im.remove_ingredient_internal_ids)),
                 deserialize_item_receipt(c, im.item_receipt),
                 im.price)

NoOrderEntity ==
    [customer_internal_id |-> NoneId, order_items |-> <<>>, value |-> NoneMoney]

\* SQLOrderRepository._to_entity: raises, or the Order it returns
ToEntity(c, row) ==
    LET unresolved == \E k \in DOMAIN row.order_items :
                         ~ProductResolved(c, row.order_items[k].product_internal_id)
        invalid == \/ \E k \in DOMAIN row.order_items :
                         ~is_valid_amount(row.order_items[k].price)
                   \/ ~is_valid_amount(row.value)
        items == [k \in DOMAIN row.order_items |-> HydratedItem(c, row.order_items[k])]
    IN  IF unresolved \/ invalid
        THEN [raised |-> TRUE, order |-> NoOrderEntity]
        ELSE IF OrderInitRaises(row.customer_internal_id, items, row.value, TRUE)
        THEN [raised |-> TRUE, order |-> NoOrderEntity]
        ELSE [raised |-> FALSE,
              order |-> NewOrderAggregate(row.customer_internal_id, items, row.value)]

\* SQLOrderRepository.create(order): whether it raises, the rows it leaves
\* committed, and the Order it returns
RepoCreate(c, o) ==
    IF Falsy(o.customer_internal_id)
    THEN [raised |-> TRUE, stored |-> <<>>, order |-> NoOrderEntity]
    ELSE IF \E k \in DOMAIN o.order_items : Falsy(o.order_items[k].product.internal_id)
    THEN \* the order row is committed before the items are looked at
         [raised |-> TRUE, stored |-> <<StoredOrder(o, <<>>)>>, order |-> NoOrderEntity]
    ELSE LET row == StoredOrder(o, [k \in DOMAIN o.order_items |->
                                       OrderItemModelOf(o.order_items[k])])
             hyd == ToEntity(c, row)
         IN  [raised |-> hyd.raised, stored |-> <<row>>, order |-> hyd.order]

\* OrderCreateUseCase.execute(request), the catalog answering as c and customer
UseCaseExecute(c, customer, request) ==
    LET items == [k \in DOMAIN request.order_items |->
                    UseCaseItem(c, request.order_items[k])]
    IN  IF \/ CustomerRaises(customer)
           \/ \E k \in DOMAIN request.order_items :
                 UseCaseItemRaises(c, request.order_items[k])
        THEN [raised |-> TRUE, stored |-> <<>>, order |-> NoOrderEntity]
        ELSE IF OrderInitRaises(request.customer_internal_id, items, NoneMoney, FALSE)
        THEN [raised |-> TRUE, stored |-> <<>>, order |-> NoOrderEntity]
        ELSE RepoCreate(c, NewOrderAggregate(request.customer_internal_id, items,
                                            NoneMoney))

StoreCall(op, raised, found, customer, request, returned) ==
    [op |-> op, raised |-> raised, found |-> found, customer |-> customer,
     request |-> request, order |-> returned]

NoCustomer == Customer("none", FALSE, FALSE, "", "")
NoRequest == OrderRequest(NoneId, <<>>)
NoStoreCall == StoreCall("none", FALSE, FALSE, NoCustomer, NoRequest, NoOrderEntity)

\* Orders handed to SQLOrderRepository.create directly
DirectOrders ==
    { NewOrderAggregate(7,
         <<NewOrderItem(ProductFindById(BaseCatalog, 1).value, additional, remove,
                        <<>>, 0)>>,
         NoneMoney) :
        additional \in {<<NoIdIngredient>>, <<Ing(3), NoIdIngredient>>, <<Ing(3)>>},
        remove \in {<<>>, <<NoIdIngredient>>, <<Ing(1)>>} }

\* OrderCreateUseCase.execute(request), the first request the service handles
OrderCreateUseCaseExecute ==
    /\ res.op = "none"
    /\ \E c \in Catalogs, customer \in CustomerResponses, request \in OrderRequests :
          LET r == UseCaseExecute(c, customer, request)
          IN  /\ catalog' = c
              /\ rows' = r.stored
              /\ res' = StoreCall("create", r.raised, FALSE, customer, request, r.order)
    /\ UNCHANGED <<entityVars, svcVars, buildVars, sideVars>>

\* SQLOrderRepository.create(order), on the empty table
RepositoryCreate ==
    /\ res.op = "none"
    /\ \E c \in Catalogs, o \in DirectOrders :
          LET r == RepoCreate(c, o)
          IN  /\ catalog' = c
              /\ rows' = r.stored
              /\ res' = StoreCall("repo_create", r.raised, FALSE, NoCustomer, NoRequest,
                                  r.order)
    /\ UNCHANGED <<entityVars, svcVars, buildVars, sideVars>>

\* SQLOrderRepository.get_by_id(order_internal_id)
RepositoryGetById ==
    /\ \E c \in Catalogs, id \in OrderIds :
          /\ catalog' = c
          /\ rows' = rows
          /\ IF QueryFirst(rows, id) = <<>>
             THEN res' = StoreCall("get_by_id", FALSE, FALSE, NoCustomer, NoRequest,
                                   NoOrderEntity)
             ELSE LET r == ToEntity(c, rows[id])
                  IN  res' = StoreCall("get_by_id", r.raised, TRUE, NoCustomer, NoRequest,
                                       r.order)
    /\ UNCHANGED <<entityVars, svcVars, buildVars, sideVars>>

(***************************************************************************)
(* Order display identifier (src/src/entities/order.py, create of          *)
(* sql_order_repository.py)                                                *)
(***************************************************************************)
\* a str is the sequence of its characters
DigitChars == <<"0", "1", "2", "3", "4", "5", "6", "7", "8", "9">>

\* str(n) of a non-negative int
RECURSIVE Str(_)
Str(n) == IF n < 10 THEN <<DigitChars[n + 1]>>
          ELSE Str(n \div 10) \o <<DigitChars[(n % 10) + 1]>>

\* s.zfill(width)
RECURSIVE zfill(_, _)
zfill(s, width) == IF Len(s) >= width THEN s ELSE zfill(<<"0">> \o s, width)

\* s[:n]
SliceTo(s, n) == IF Len(s) <= n THEN s ELSE SubSeq(s, 1, n)

\* str(internal_id).zfill(3)[:3]
DisplayIdOf(internal_id) == SliceTo(zfill(Str(internal_id), 3), 3)

\* Order._set_display_id: the order afterwards
set_display_id(o) ==
    IF ~Falsy(o.internal_id)
    THEN [o EXCEPT !.order_display_id = DisplayIdOf(o.internal_id)]
    ELSE o

\* Order.update_display_id: the order afterwards
update_display_id(o) ==
    IF ~Falsy(o.internal_id) /\ o.order_display_id = <<>>
    THEN [o EXCEPT !.order_display_id = DisplayIdOf(o.internal_id)]
    ELSE o

\* the internal_id and order_display_id an Order is constructed with
InternalIdArgs == {NoneId, 0, 7, 42, 100, 999, 1000, 1005, 12345}
DisplayIdArgs == { <<>>, <<"0", "4", "2">>, <<"A", "0", "1">> }

\* the identifiers the database gives a new order row
NewInternalIds == { n \in InternalIdArgs : n > 0 }

DisplayOrder(internal_id, order_display_id) ==
    [internal_id |-> internal_id, order_display_id |-> order_display_id]

DisplayCall(op, pre, obj) == [op |-> op, pre |-> pre, obj |-> obj]

NoDisplay == DisplayCall("none", DisplayOrder(NoneId, <<>>), DisplayOrder(NoneId, <<>>))

SideIdle == pay = <<>> /\ disp = NoDisplay

\* Order(..., internal_id=..., order_display_id=...): __post_init__ ends with
\* _set_display_id
DisplayInit ==
    \E internal_id \in InternalIdArgs, order_display_id \in DisplayIdArgs :
        disp = DisplayCall("__init__", DisplayOrder(internal_id, order_display_id),
                           set_display_id(DisplayOrder(internal_id, order_display_id)))

\* order._set_display_id()
OrderSetDisplayId ==
    /\ disp' = DisplayCall("_set_display_id", disp.obj, set_display_id(disp.obj))
    /\ UNCHANGED <<entityVars, svcVars, buildVars, storeVars, pay>>

\* order.update_display_id()
OrderUpdateDisplayId ==
    /\ disp' = DisplayCall("update_display_id", disp.obj, update_display_id(disp.obj))
    /\ UNCHANGED <<entityVars, svcVars, buildVars, storeVars, pay>>

\* order.order_display_id = ...
OrderAssignDisplayId ==
    /\ \E order_display_id \in DisplayIdArgs :
          disp' = DisplayCall("assign", disp.obj,
                              [disp.obj EXCEPT !.order_display_id = order_display_id])
    /\ UNCHANGED <<entityVars, svcVars, buildVars, storeVars, pay>>

\* SQLOrderRepository.create as far as the display identifier goes: the row
\* gets its internal_id from the database and, when the order brought no
\* display identifier, the one derived from it; _to_entity rebuilds the Order
RepositoryCreateDisplayId ==
    /\ \E internal_id \in NewInternalIds :
          LET order_model ==
                update_display_id(DisplayOrder(internal_id, disp.obj.order_display_id))
          IN  disp' = DisplayCall("create", disp.obj, set_display_id(order_model))
    /\ UNCHANGED <<entityVars, svcVars, buildVars, storeVars, pay>>

(***************************************************************************)
(* OrderController over the stored orders, the catalog and the payment     *)
(* service (order_controller.py, order_use_cases.py, http_payment_client)  *)
(***************************************************************************)
\* HTTPPaymentClient.request_payment: a response, or ValueError (service not
\* reached, status not ok, empty body)
PaymentClientOutcomes == {"ok", "error"}

PaymentCall(order_id, amount, outcome) ==
    [order_id |-> order_id, amount |-> amount, outcome |-> outcome]

\* the has_payment_verified test that never finds the order paid
AlreadyPaid_never(row) == FALSE

\* OrderPaymentRequestUseCase.execute: `if order.has_payment_verified`
AlreadyPaid(row) == row.has_payment_verified

\* OrderPaymentRequestUseCase.execute(order_internal_id): whether it raises
\* and the payment-client calls it makes
PaymentRequestExecute(c, id, outcome) ==
    IF QueryFirst(rows, id) = <<>>
    THEN [raised |-> TRUE, calls |-> <<>>]
    ELSE IF ToEntity(c, rows[id]).raised
    THEN [raised |-> TRUE, calls |-> <<>>]
    ELSE IF AlreadyPaid(db[id])
    THEN [raised |-> TRUE, calls |-> <<>>]
    ELSE [raised |-> outcome # "ok",
          calls |-> <<PaymentCall(id, MoneyValue(ToEntity(c, rows[id]).order.value),
                                  outcome)>>]

\* the catalogs found by the requests that read an order
ReadCatalogs == { BaseCatalog, [BaseCatalog EXCEPT !.products[1].state = "missing"] }

\* the status of get_order / get_payment_status: 404 when the use case
\* returns None, 500 when get_by_id raises
ReadStatus(c, id) ==
    IF QueryFirst(rows, id) = <<>> THEN 404
    ELSE IF ToEntity(c, rows[id]).raised THEN 500
    ELSE 200

\* an order stored earlier and since paid
PaidOrderRows ==
    UseCaseExecute(BaseCatalog, Customer("ok", TRUE, TRUE, "", ""),
                   OrderRequest(7, <<ItemRequest(1, <<>>, <<>>)>>)).stored
PaidOrderDb ==
    <<RepoProcessPayment(OrderModelOf(NewOrder(None, FALSE)),
                         MkPayment(PaymentKeys, "tx1", TRUE, "d1", "m1"))>>

\* the customers and the request bodies create_order is called with
ControllerCustomers ==
    { Customer("missing", FALSE, FALSE, "", ""), Customer("error", FALSE, FALSE, "", ""),
      Customer("ok", TRUE, TRUE, "", ""), Customer("ok", FALSE, TRUE, "", "") }
ControllerRequests ==
    { OrderRequest(7, <<>>),
      OrderRequest(7, <<ItemRequest(1, <<>>, <<>>)>>),
      OrderRequest(7, <<ItemRequest(1, <<3>>, <<1>>)>>) }

ControllerInit ==
    /\ catalog = BaseCatalog
    /\ res = NoStoreCall
    /\ svc = Response("none", 0, 0, <<>>, NoPayment)
    /\ pay = <<>>
    /\ \/ db = <<>> /\ rows = <<>>
       \/ db = PaidOrderDb /\ rows = PaidOrderRows

\* OrderController.create_order -> OrderCreateUseCase.execute
\* -> SQLOrderRepository.create, on the empty table
ControllerCreateOrder ==
    /\ svc.op = "none"
    /\ rows = <<>>
    /\ \E c \in Catalogs, customer \in ControllerCustomers,
          request \in ControllerRequests :
          LET r == UseCaseExecute(c, customer, request)
          IN  /\ catalog' = c
              /\ rows' = r.stored
              /\ db' = IF r.stored = <<>> THEN <<>>
                       ELSE <<OrderModelOf(NewOrder(None, FALSE))>>
              /\ res' = StoreCall("create", r.raised, FALSE, customer, request, r.order)
              /\ svc' = Response("create_order", Len(r.stored),
                                 IF r.raised THEN 400 ELSE 200, <<>>, NoPayment)
    /\ UNCHANGED <<entityVars, buildVars, sideVars>>

\* OrderController.get_order -> OrderReadUseCase.execute -> get_by_id
ControllerGetOrder ==
    /\ \E c \in ReadCatalogs, id \in OrderIds :
          /\ catalog' = c
          /\ svc' = Response("get_order", id, ReadStatus(c, id), QueryFirst(db, id),
                             NoPayment)
    /\ UNCHANGED <<entityVars, buildVars, sideVars, db, rows, res>>

\* OrderController.get_payment_status -> OrderPaymentStatusUseCase.execute
\* -> get_by_id
ControllerGetPaymentStatus ==
    /\ \E c \in ReadCatalogs, id \in OrderIds :
          /\ catalog' = c
          /\ svc' = Response("get_payment_status", id, ReadStatus(c, id),
                             QueryFirst(db, id), NoPayment)
    /\ UNCHANGED <<entityVars, buildVars, sideVars, db, rows, res>>

\* OrderController.request_payment -> OrderPaymentRequestUseCase.execute
\* -> get_by_id, HTTPPaymentClient.request_payment
ControllerRequestPayment ==
    /\ Len(pay) < MaxPayCalls
    /\ \E c \in ReadCatalogs, id \in OrderIds, outcome \in PaymentClientOutcomes :
          LET r == PaymentRequestExecute(c, id, outcome)
          IN  /\ catalog' = c
              /\ pay' = pay \o r.calls
              /\ svc' = Response("request_payment", id,
                                 IF r.raised THEN 400 ELSE 200, QueryFirst(db, id),
                                 NoPayment)
    /\ UNCHANGED <<entityVars, buildVars, disp, db, rows, res>>

(***************************************************************************)
(* Specifications                                                          *)
(***************************************************************************)
\* one Order object under next_status / process_payment calls
StoreIdle ==
    /\ catalog = BaseCatalog
    /\ rows = <<>>
    /\ res = NoStoreCall

Init == EntityInit /\ SvcInit /\ ItemIdle /\ AggIdle /\ StoreIdle /\ SideIdle

Next ==
    \/ OrderNextStatus
    \/ OrderProcessPayment
    \/ StatusPreviousStatus

Spec == Init /\ [][Next]_vars

\* the orders table under controller requests
SvcSpecInit ==
    /\ SvcInit
    /\ ctor = [status |-> None, has_payment_verified |-> FALSE]
    /\ order = NewOrder(None, FALSE)
    /\ last = Call("__init__", FALSE, NewOrder(None, FALSE), NoPayment, None)
    /\ hist = <<>>
    /\ ItemIdle /\ AggIdle /\ StoreIdle /\ SideIdle

SvcSpecNext ==
    \/ CreateOrder
    \/ UpdateOrderStatus
    \/ CancelOrder
    \/ ProcessPayment

SvcSpec == SvcSpecInit /\ [][SvcSpecNext]_vars

\* the Order of the other specifications: constructed with defaults, untouched
EntityIdle ==
    /\ ctor = [status |-> None, has_payment_verified |-> FALSE]
    /\ order = NewOrder(None, FALSE)
    /\ last = Call("__init__", FALSE, NewOrder(None, FALSE), NoPayment, None)
    /\ hist = <<>>

\* one OrderItem object, constructed from every combination of arguments
ItemSpecInit == EntityIdle /\ SvcInit /\ ItemIdle /\ AggIdle /\ StoreIdle /\ SideIdle

ItemSpecNext ==
    \/ OrderItemInit

ItemSpec == ItemSpecInit /\ [][ItemSpecNext]_vars

\* one Order object's items and value, from construction on
OrderSpecInit == EntityIdle /\ SvcInit /\ ItemIdle /\ AggIdle /\ StoreIdle /\ SideIdle

OrderSpecNext ==
    \/ OrderInit
    \/ OrderItemSetPrice
    \/ OrderItemsAppend
    \/ OrderCalculateValue

OrderSpec == OrderSpecInit /\ [][OrderSpecNext]_vars

\* one constructed OrderItem, its lists reassigned and its receipt asked for
ReceiptSpecInit == EntityIdle /\ SvcInit /\ ReceiptItemInit /\ AggIdle /\ StoreIdle /\ SideIdle

ReceiptSpecNext ==
    \/ OrderItemSetIngredients
    \/ OrderItemGenerateItemReceipt
    \/ OrderItemGetItemReceipt

ReceiptSpec == ReceiptSpecInit /\ [][ReceiptSpecNext]_vars

\* one Order object's display identifier, from construction on
DisplaySpecInit ==
    /\ EntityIdle /\ SvcInit /\ ItemIdle /\ AggIdle /\ StoreIdle
    /\ pay = <<>> /\ DisplayInit

DisplaySpecNext ==
    \/ OrderSetDisplayId
    \/ OrderUpdateDisplayId
    \/ OrderAssignDisplayId
    \/ RepositoryCreateDisplayId

DisplaySpec == DisplaySpecInit /\ [][DisplaySpecNext]_vars

\* the controller's requests on a table that is empty or holds a paid order
ControllerSpecInit ==
    /\ EntityIdle /\ ItemIdle /\ AggIdle /\ disp = NoDisplay
    /\ ControllerInit

ControllerSpecNext ==
    \/ ControllerCreateOrder
    \/ ControllerGetOrder
    \/ ControllerGetPaymentStatus
    \/ ControllerRequestPayment
    \/ CancelOrder

ControllerSpec == ControllerSpecInit /\ [][ControllerSpecNext]_vars

\* one stored order: created from a request or handed to the repository, then
\* read back, the catalog answering each request as it then is
StoreSpecInit == EntityIdle /\ SvcInit /\ ItemIdle /\ AggIdle /\ StoreIdle /\ SideIdle

StoreSpecNext ==
    \/ OrderCreateUseCaseExecute
    \/ RepositoryCreate
    \/ RepositoryGetById

StoreSpec == StoreSpecInit /\ [][StoreSpecNext]_vars

(***************************************************************************)
(* Properties                                                              *)
(***************************************************************************)
Approved(payment) == DictGet(payment, "approval_status", FALSE)

DefaultConstructed == ctor.status = None /\ ctor.has_payment_verified = FALSE

\* the request carried the two keys OrderController.process_payment subscripts
WellFormed(data) == {"transaction_id", "approval_status"} \subseteq data.has

\* C1: an approved process_payment on an order whose payment is not yet
\* verified returns with has_payment_verified = True and status EM_PREPARACAO;
\* an approved process_payment on an order already verified, in particular the
\* second of two approved calls in a row, raises.
C1_ApprovedPaymentOnce ==
    (last.op = "process_payment" /\ Approved(last.payment)) =>
        /\ ~last.pre.has_payment_verified =>
              /\ ~last.raised
              /\ order.has_payment_verified = TRUE
              /\ order.status = EM_PREPARACAO
        /\ last.pre.has_payment_verified => last.raised
        /\ (/\ Len(hist) >= 2
            /\ hist[Len(hist) - 1] = "process_payment_approved") => last.raised

C1_Witness ==
    /\ DefaultConstructed
    /\ hist = <<"process_payment_approved", "process_payment_approved">>
    /\ last.op = "process_payment"
    /\ last.raised
    /\ order.has_payment_verified
    /\ order.status = EM_PREPARACAO

\* C2: every process_payment call on an order whose has_payment_verified is
\* already True raises, whether the new payment is approved or rejected.
C2_AnyPaymentOnVerifiedFails ==
    (last.op = "process_payment" /\ last.pre.has_payment_verified) => last.raised

\* C3: a payment confirmation that reaches a stored order whose
\* has_payment_verified is already True is answered 400 and leaves the stored
\* order as it was.
C3_DuplicateConfirmRejected ==
    (/\ svc.op = "process_payment"
     /\ WellFormed(svc.data)
     /\ svc.pre # <<>>
     /\ svc.pre[1].has_payment_verified) =>
        /\ svc.status_code = 400
        /\ db[svc.order_id] = svc.pre[1]

\* C4: a rejected payment (approval_status false or absent) sets status to
\* CANCELADO and has_payment_verified to False, in Order.process_payment and,
\* for the same order and payment, in SQLOrderRepository.process_payment.
C4_RejectedPaymentCancels ==
    (last.op = "process_payment" /\ ~Approved(last.payment)) =>
        /\ ~last.raised
        /\ order.status = CANCELADO
        /\ order.has_payment_verified = FALSE
        /\ RepoProcessPayment(OrderModelOf(last.pre), last.payment).status = CANCELADO
        /\ RepoProcessPayment(OrderModelOf(last.pre), last.payment).has_payment_verified = FALSE

C4_Witness ==
    /\ last.op = "process_payment"
    /\ "approval_status" \notin last.payment.has
    /\ last.pre.has_payment_verified
    /\ last.pre.status = PRONTO
    /\ order.status = CANCELADO
    /\ ~order.has_payment_verified

\* C5: Order.next_status moves RECEBIDO to EM_PREPARACAO, EM_PREPARACAO to
\* PRONTO and PRONTO to FINALIZADO; at FINALIZADO or CANCELADO
\* OrderStatus.next_status returns None and the order keeps its status.
C5_NextStatusOneStep ==
    last.op = "next_status" =>
        /\ last.pre.status = RECEBIDO =>
              last.ret = EM_PREPARACAO /\ order.status = EM_PREPARACAO
        /\ last.pre.status = EM_PREPARACAO =>
              last.ret = PRONTO /\ order.status = PRONTO
        /\ last.pre.status = PRONTO =>
              last.ret = FINALIZADO /\ order.status = FINALIZADO
        /\ last.pre.status \in {FINALIZADO, CANCELADO} =>
              last.ret = None /\ order.status = last.pre.status

C5_Witness ==
    /\ last.op = "next_status"
    /\ last.pre.status = FINALIZADO
    /\ order.status = FINALIZADO
    /\ hist = <<"next_status", "next_status", "next_status">>

\* C6: OrderStatus.previous_status returns the status one position earlier in
\* the chain, and None when the status is RECEBIDO or CANCELADO.
C6_PreviousStatusOneStepBack ==
    last.op = "previous_status" =>
        /\ last.pre.status = EM_PREPARACAO => last.ret = RECEBIDO
        /\ last.pre.status = PRONTO => last.ret = EM_PREPARACAO
        /\ last.pre.status = FINALIZADO => last.ret = PRONTO
        /\ last.pre.status \in {RECEBIDO, CANCELADO} => last.ret = None

\* C7: whenever previous_status(s) returns a status, next_status of it is s;
\* whenever next_status(s) returns a status, previous_status of it is s.
C7_NextPreviousInverse ==
    /\ (last.op = "previous_status" /\ last.ret # None) =>
          next_status(last.ret) = last.pre.status
    /\ (last.op = "next_status" /\ last.ret # None) =>
          previous_status(last.ret) = last.pre.status

\* C8: cancel sets a stored order's status to CANCELADO only when its status
\* is RECEBIDO or EM_PREPARACAO; a stored order in PRONTO, FINALIZADO or
\* CANCELADO is left as it was.
C8_CancelOnlyWhenCancellable ==
    (svc.op = "cancel_order" /\ svc.pre # <<>>) =>
        IF svc.pre[1].status \in {RECEBIDO, EM_PREPARACAO}
        THEN db[svc.order_id].status = CANCELADO
        ELSE db[svc.order_id] = svc.pre[1]

\* C9: once an Order's status is FINALIZADO or CANCELADO, no next_status or
\* process_payment call changes it.
C9_TerminalStatuses ==
    [][order.status \in {FINALIZADO, CANCELADO} => order'.status = order.status]_vars

\* C10: an Order constructed without status or payment is RECEBIDO and can be
\* cancelled; after one next_status it is EM_PREPARACAO and can be cancelled;
\* after two it is PRONTO, cannot be cancelled and can be finalized; and
\* can_be_finalized holds in no status but PRONTO.
C10_CancelAndFinalizeWindow ==
    /\ (DefaultConstructed /\ hist = <<>>) =>
          order.status = RECEBIDO /\ can_be_cancelled(order)
    /\ (DefaultConstructed /\ hist = <<"next_status">>) =>
          order.status = EM_PREPARACAO /\ can_be_cancelled(order)
    /\ (DefaultConstructed /\ hist = <<"next_status", "next_status">>) =>
          order.status = PRONTO /\ ~can_be_cancelled(order) /\ can_be_finalized(order)
    /\ can_be_finalized(order) => order.status = PRONTO
    /\ order.status # PRONTO => ~can_be_finalized(order)

C10_Witness ==
    /\ DefaultConstructed
    /\ hist = <<"next_status", "next_status">>
    /\ order.status = PRONTO
    /\ can_be_finalized(order)

\* occurrences of the ingredient with identifier id in a list of ingredients
Occurrences(l, id) == Cardinality({ k \in DOMAIN l : l[k].internal_id = id })

\* the quantity a product's default-ingredient list gives the identifier id
RECURSIVE DefaultQuantity(_, _)
DefaultQuantity(defaults, id) ==
    IF defaults = <<>> THEN 0
    ELSE (IF Head(defaults).ingredient.internal_id = id THEN Head(defaults).quantity ELSE 0)
         + DefaultQuantity(Tail(defaults), id)

\* `ingredient in remove_ingredient`, for the catalog's ingredient with identifier id
Removed(remove, id) == \E k \in DOMAIN remove : remove[k] = Ing(id)

\* C11: constructing an Order raises when the customer id is missing, when the
\* item list is empty, or (without the skip flag) when an item's product is
\* inactive; with the skip flag an inactive product is accepted, while a
\* missing customer id or an empty item list still raises.
C11_ConstructionValidation ==
    agg.op = "__init__" =>
        LET customer == agg.args.customer_internal_id
            items == agg.obj.order_items
            value == agg.args.value
        IN  /\ (Falsy(customer) \/ items = <<>>) => agg.raised
            /\ (~agg.args.skip /\ HasInactiveProduct(items)) => agg.raised
            /\ (agg.args.skip /\ ~Falsy(customer) /\ items # <<>>
                   /\ ~ValueNotPositive(value)) => ~agg.raised

C11_Witness ==
    /\ agg.op = "__init__"
    /\ agg.args.skip
    /\ HasInactiveProduct(agg.obj.order_items)
    /\ ~agg.raised

\* C12: every successfully constructed Order has a value greater than zero,
\* pre-supplied or computed from the item prices.
C12_ValuePositive ==
    (agg.op = "__init__" /\ ~agg.raised) => agg.obj.value > 0

\* C13: an OrderItem constructed without a receipt, from a product whose default
\* quantities are all at least 1, holds a receipt with exactly one entry per
\* ingredient identifier whose total is positive, the total being its default
\* quantity (0 when the ingredient is in the remove list) plus its occurrences
\* in the additional list.
C13_ReceiptFormula ==
    (/\ item.op # "none"
     /\ item.args.item_receipt = <<>>
     /\ \A k \in DOMAIN item.args.product.default_ingredient :
           item.args.product.default_ingredient[k].quantity >= 1)
    => \A id \in IngredientIds :
          LET total == (IF Removed(item.args.remove_ingredient, id) THEN 0
                        ELSE DefaultQuantity(item.args.product.default_ingredient, id))
                       + Occurrences(item.args.additional_ingredient, id)
              entries == { k \in DOMAIN item.obj.item_receipt :
                             item.obj.item_receipt[k].ingredient.internal_id = id }
          IN  /\ total = 0 => entries = {}
              /\ total > 0 => /\ Cardinality(entries) = 1
                              /\ \A k \in entries :
                                    item.obj.item_receipt[k] =
                                        ProductReceiptItem(Ing(id), total)

\* defaults [A x2, B x1], additional [C], remove [A] gives exactly {B:1, C:1}
C13_Witness ==
    /\ item.op = "__init__"
    /\ item.args.item_receipt = <<>>
    /\ item.args.product.default_ingredient =
          <<ProductReceiptItem(Ing(1), 2), ProductReceiptItem(Ing(2), 1)>>
    /\ item.args.additional_ingredient = <<Ing(3)>>
    /\ item.args.remove_ingredient = <<Ing(1)>>
    /\ item.obj.item_receipt =
          <<ProductReceiptItem(Ing(2), 1), ProductReceiptItem(Ing(3), 1)>>

\* C14: an OrderItem constructed without an explicit price has price = the
\* product's base price + the prices of all additional ingredients, repeated
\* ingredients counted each time, whatever the remove list holds.
C14_ItemPrice ==
    (item.op # "none" /\ item.args.price = 0) =>
        item.obj.price = item.args.product.price
                         + SumPrices(item.args.additional_ingredient)

C14_Witness ==
    /\ item.op = "__init__"
    /\ item.args.price = 0
    /\ item.args.additional_ingredient = <<Ing(3), Ing(3)>>
    /\ item.args.remove_ingredient = <<Ing(2)>>
    /\ item.obj.price = item.args.product.price + 600

\* C15: an Order constructed without a value has value = the sum of its items'
\* prices, and changing the items afterwards leaves value as it is; only
\* calculate_value assigns it again.
C15_ValueAtConstruction ==
    /\ []((agg.op = "__init__" /\ ~agg.raised /\ agg.args.value = NoneMoney)
            => agg.obj.value = SumPrices(agg.obj.order_items))
    /\ [][(agg.op # "none" /\ agg'.op \in {"set_item_price", "append_item"})
            => agg'.obj.value = agg.obj.value]_vars

C15_Witness ==
    /\ agg.op \in {"set_item_price", "append_item"}
    /\ agg.args.value = NoneMoney
    /\ agg.obj.value > 0
    /\ agg.obj.value # SumPrices(agg.obj.order_items)

\* a receipt as identifiers with quantities
ReceiptData(item_receipt) ==
    [k \in DOMAIN item_receipt |->
        CatalogDefault(item_receipt[k].ingredient.internal_id, item_receipt[k].quantity)]

\* the identifiers of a list of ingredients
IdSet(ingredients) == { ingredients[k].internal_id : k \in DOMAIN ingredients }

\* every product and ingredient of the catalog is answered
CatalogAnswers(c) ==
    /\ \A pid \in ProductIds : c.products[pid].state = "ok"
    /\ \A id \in IngredientIds : c.ingredients[id].state = "ok"

\* every ingredient of the items' lists and receipts has an identifier
AllIdentified(order_items) ==
    \A k \in DOMAIN order_items :
        /\ \A id \in IdSet(order_items[k].additional_ingredient) : ~Falsy(id)
        /\ \A id \in IdSet(order_items[k].remove_ingredient) : ~Falsy(id)
        /\ \A j \in DOMAIN order_items[k].item_receipt :
              ~Falsy(order_items[k].item_receipt[j].ingredient.internal_id)

\* the ingredient repository returns the ingredients of the list as they are:
\* each has an identifier, and find_by_id of it gives the same Ingredient
SameIngredients(c, ingredients) ==
    \A k \in DOMAIN ingredients :
        /\ ~Falsy(ingredients[k].internal_id)
        /\ IngredientFindById(c, ingredients[k].internal_id, TRUE).status = "ok"
        /\ IngredientFindById(c, ingredients[k].internal_id, TRUE).value = ingredients[k]

\* a get_by_id that found the stored order and returned it
ReadBack == res.op = "get_by_id" /\ res.found /\ ~res.raised

\* C16: every read of a stored order returns, for each item, the price and the
\* receipt (identifiers with quantities) computed when the order was created,
\* whatever prices, default ingredients and availability the catalog's
\* products and ingredients have by then.
C16_PricesAndReceiptsFrozen ==
    (ReadBack /\ CatalogAnswers(catalog) /\ AllIdentified(rows[1].created)) =>
        \A k \in DOMAIN rows[1].created :
            /\ res.order.order_items[k].price = rows[1].created[k].price
            /\ ReceiptData(res.order.order_items[k].item_receipt)
                  = ReceiptData(rows[1].created[k].item_receipt)

\* C17: an item's additional and remove lists, stored as identifier lists and
\* rehydrated with an ingredient repository that returns the same ingredients,
\* come back as ingredient sets equal by identifier to the originals.
C17_IngredientListsRoundTrip ==
    ReadBack =>
        \A k \in DOMAIN rows[1].created :
            LET made == rows[1].created[k]
                back == res.order.order_items[k]
            IN  (/\ SameIngredients(catalog, made.additional_ingredient)
                 /\ SameIngredients(catalog, made.remove_ingredient)) =>
                    /\ IdSet(back.additional_ingredient) = IdSet(made.additional_ingredient)
                    /\ IdSet(back.remove_ingredient) = IdSet(made.remove_ingredient)

C17_Witness ==
    /\ ReadBack
    /\ rows[1].created[1].additional_ingredient = <<Ing(3), Ing(3)>>
    /\ rows[1].created[1].remove_ingredient = <<Ing(2)>>
    /\ SameIngredients(catalog, rows[1].created[1].additional_ingredient)
    /\ SameIngredients(catalog, rows[1].created[1].remove_ingredient)
    /\ res.order.order_items[1].additional_ingredient = <<Ing(3), Ing(3)>>
    /\ res.order.order_items[1].remove_ingredient = <<Ing(2)>>

\* the stored identifiers the catalog still answers for
RECURSIVE ResolvableIds(_, _)
ResolvableIds(c, ids) ==
    IF ids = <<>> THEN <<>>
    ELSE (IF c.ingredients[Head(ids)].state = "ok" THEN <<Head(ids)>> ELSE <<>>)
         \o ResolvableIds(c, Tail(ids))

RECURSIVE ResolvableReceipt(_, _)
ResolvableReceipt(c, data) ==
    IF data = <<>> THEN <<>>
    ELSE (IF c.ingredients[Head(data).ingredient_internal_id].state = "ok"
          THEN <<Head(data)>> ELSE <<>>)
         \o ResolvableReceipt(c, Tail(data))

IdsOf(ingredients) == [k \in DOMAIN ingredients |-> ingredients[k].internal_id]

\* C18: reading a stored order whose products the product repository resolves
\* succeeds, and each item comes back with its stored additional list, remove
\* list and receipt less exactly the ingredients the catalog does not resolve
\* (unknown, or the lookup fails); if an item's product is not resolved the
\* read raises.
C18_UnresolvedIngredientOmitted ==
    (res.op = "get_by_id" /\ res.found /\ rows[1].value > 0) =>
        IF \E k \in DOMAIN rows[1].order_items :
              ~ProductResolved(catalog, rows[1].order_items[k].product_internal_id)
        THEN res.raised
        ELSE /\ ~res.raised
             /\ \A k \in DOMAIN rows[1].order_items :
                   LET im == rows[1].order_items[k]
                       back == res.order.order_items[k]
                   IN  /\ IdsOf(back.additional_ingredient)
                             = ResolvableIds(catalog, im.additional_ingredient_internal_ids)
                       /\ IdsOf(back.remove_ingredient)
                             = ResolvableIds(catalog, im.remove_ingredient_internal_ids)
                       /\ ReceiptData(back.item_receipt)
                             = ResolvableReceipt(catalog, im.item_receipt)

\* the customer may place orders
Eligible(customer) ==
    /\ customer.state = "ok"
    /\ customer.is_active
    /\ (customer.is_anonymous \/ (customer.email # "" /\ customer.document # ""))

\* C19: execute stores an order only if the fetched customer is active and is
\* anonymous or has both an email and a document; otherwise it raises and
\* nothing is stored.
C19_CustomerEligibility ==
    res.op = "create" =>
        /\ rows # <<>> => Eligible(res.customer)
        /\ ~Eligible(res.customer) =>
              /\ res.raised
              /\ rows = <<>>
              /\ res.order = NoOrderEntity

C19_Witness ==
    /\ res.op = "create"
    /\ rows # <<>>
    /\ ~res.customer.is_anonymous
    /\ res.customer.email # ""
    /\ res.customer.document # ""

\* the requested products and additional / remove ingredients of a request
RequestedProducts(request) ==
    { request.order_items[k].product_internal_id : k \in DOMAIN request.order_items }
RequestedIngredients(request) ==
    UNION { { request.order_items[k].additional_ingredient_internal_ids[j] :
                j \in DOMAIN request.order_items[k].additional_ingredient_internal_ids }
            \cup
            { request.order_items[k].remove_ingredient_internal_ids[j] :
                j \in DOMAIN request.order_items[k].remove_ingredient_internal_ids } :
            k \in DOMAIN request.order_items }

MissingOrInactive(entry) == entry.state = "missing" \/ ~entry.is_active

\* C20: execute raises and stores nothing when a requested product, additional
\* ingredient or remove ingredient is missing from the catalog or inactive; an
\* order is stored only when every requested product and ingredient is active.
C20_RequestedEntriesActive ==
    res.op = "create" =>
        /\ (\/ \E pid \in RequestedProducts(res.request) :
                  MissingOrInactive(catalog.products[pid])
            \/ \E id \in RequestedIngredients(res.request) :
                  MissingOrInactive(catalog.ingredients[id]))
           => (res.raised /\ rows = <<>>)
        /\ rows # <<>> =>
              /\ \A pid \in RequestedProducts(res.request) :
                    catalog.products[pid].state = "ok" /\ catalog.products[pid].is_active
              /\ \A id \in RequestedIngredients(res.request) :
                    catalog.ingredients[id].state = "ok" /\ catalog.ingredients[id].is_active

C20_Witness ==
    /\ res.op = "create"
    /\ Eligible(res.customer)
    /\ ~catalog.hides_inactive
    /\ \E id \in RequestedIngredients(res.request) : ~catalog.ingredients[id].is_active
    /\ \A pid \in RequestedProducts(res.request) : ~MissingOrInactive(catalog.products[pid])
    /\ res.raised
    /\ rows = <<>>

\* C29: an Order constructed with the default status and payment fields and
\* changed only by next_status and process_payment has has_payment_verified
\* True only while its status is EM_PREPARACAO, PRONTO or FINALIZADO.
C29_VerifiedOnlyInPreparationOrLater ==
    DefaultConstructed =>
        (order.has_payment_verified =>
            order.status \in {EM_PREPARACAO, PRONTO, FINALIZADO})

C29_Witness ==
    /\ DefaultConstructed
    /\ hist = <<"process_payment_approved", "next_status", "next_status">>
    /\ order.has_payment_verified
    /\ order.status = FINALIZADO

\* C30: a process_payment call that raises the already-verified error leaves
\* status, has_payment_verified, payment_transaction_id, payment_date and
\* payment_message as they were before the call.
C30_RaisingPaymentLeavesOrder ==
    (last.op = "process_payment" /\ last.raised) => order = last.pre

\* C25: the receipt computation expands every default (ingredient, qty) pair of
\* the product into exactly qty occurrences of the ingredient, a pair with
\* quantity 0 contributing none.
C25_DefaultsExpandedByQuantity ==
    item.op = "__init__" =>
        \A id \in IngredientIds :
            Occurrences(serialize_default_ingredients(item.args.product.default_ingredient), id)
                = DefaultQuantity(item.args.product.default_ingredient, id)

\* the ingredients the receipt of the constructed item is grouped from
FullList ==
    FilterNotIn(serialize_default_ingredients(item.args.product.default_ingredient),
                item.args.remove_ingredient)
    \o item.args.additional_ingredient

\* C26: the receipt has one entry per ingredient identifier, its quantity the
\* number of occurrences with that identifier, and one entry per distinct
\* ingredient without identifier, its quantity that ingredient's occurrences.
C26_GroupingByIdentifierOrIdentity ==
    (item.op = "__init__" /\ item.args.item_receipt = <<>>) =>
        \A k \in DOMAIN FullList :
            LET ing == FullList[k]
                same == IF ing.internal_id # NoneId
                        THEN { j \in DOMAIN FullList :
                                 FullList[j].internal_id = ing.internal_id }
                        ELSE { j \in DOMAIN FullList : FullList[j] = ing }
                entries == { e \in DOMAIN item.obj.item_receipt :
                               IF ing.internal_id # NoneId
                               THEN item.obj.item_receipt[e].ingredient.internal_id
                                       = ing.internal_id
                               ELSE item.obj.item_receipt[e].ingredient = ing }
            IN  /\ Cardinality(entries) = 1
                /\ \A e \in entries :
                      item.obj.item_receipt[e].quantity = Cardinality(same)

\* C27: _generate_item_receipt and get_item_receipt called on an OrderItem
\* whose receipt is non-empty leave the receipt as it is, also after the
\* additional or remove list was reassigned.
C27_ReceiptGenerationIdempotent ==
    [][(/\ item'.op \in {"_generate_item_receipt", "get_item_receipt"}
        /\ item.obj.item_receipt # <<>>)
       => item'.obj.item_receipt = item.obj.item_receipt]_vars

C27_Witness ==
    /\ item.op = "_generate_item_receipt"
    /\ item.args.item_receipt = <<>>
    /\ item.args.additional_ingredient = <<Ing(3)>>
    /\ item.obj.additional_ingredient = <<Ing(2)>>
    /\ item.obj.remove_ingredient = <<Ing(2)>>
    /\ item.obj.item_receipt =
          <<ProductReceiptItem(Ing(1), 2), ProductReceiptItem(Ing(2), 1),
            ProductReceiptItem(Ing(3), 1)>>

\* C22: a SQLOrderRepository.create that fails leaves neither the order row nor
\* any item row persisted.
C22_FailedCreateLeavesNothing ==
    (res.op \in {"create", "repo_create"} /\ res.raised) => rows = <<>>

\* catalog d is catalog c after deactivations only: entries differ at most in
\* is_active, and only from active to inactive
OnlyDeactivated(c, d) ==
    /\ d.hides_inactive = c.hides_inactive
    /\ \A pid \in ProductIds :
          /\ [d.products[pid] EXCEPT !.is_active = TRUE]
                = [c.products[pid] EXCEPT !.is_active = TRUE]
          /\ d.products[pid].is_active => c.products[pid].is_active
    /\ \A id \in IngredientIds :
          /\ [d.ingredients[id] EXCEPT !.is_active = TRUE]
                = [c.ingredients[id] EXCEPT !.is_active = TRUE]
          /\ d.ingredients[id].is_active => c.ingredients[id].is_active

\* C28: an order that was created successfully is read back by get_by_id
\* without error when the catalog differs from the one it was created under
\* only by deactivated products or ingredients.
C28_DeactivationKeepsOrderReadable ==
    [][(/\ res.op \in {"create", "repo_create"}
        /\ ~res.raised
        /\ res'.op = "get_by_id"
        /\ res'.found
        /\ OnlyDeactivated(catalog, catalog'))
       => ~res'.raised]_vars

\* C24: an Order that has an internal id carries, after construction and after
\* _set_display_id, a display identifier of 3 characters equal to the decimal
\* internal id zero-padded on the left, so that distinct internal ids have
\* distinct display identifiers; update_display_id leaves a non-empty display
\* identifier as it is.
C24_DisplayIdZeroPadded ==
    /\ (disp.op \in {"__init__", "_set_display_id", "create"}
           /\ ~Falsy(disp.obj.internal_id)) =>
          /\ Len(disp.obj.order_display_id) = 3
          /\ disp.obj.order_display_id = zfill(Str(disp.obj.internal_id), 3)
          /\ \A other \in NewInternalIds \ {disp.obj.internal_id} :
                DisplayIdOf(other) # disp.obj.order_display_id
    /\ (disp.op = "update_display_id" /\ disp.pre.order_display_id # <<>>) =>
          disp.obj.order_display_id = disp.pre.order_display_id

\* the order-creation request named a customer, product or ingredient that
\* the catalog does not have
NamesMissingEntry ==
    \/ res.customer.state = "missing"
    \/ \E k \in DOMAIN res.request.order_items :
          LET ir == res.request.order_items[k]
          IN  \/ catalog.products[ir.product_internal_id].state = "missing"
              \/ \E j \in DOMAIN ir.additional_ingredient_internal_ids :
                    catalog.ingredients[ir.additional_ingredient_internal_ids[j]].state
                        = "missing"
              \/ \E j \in DOMAIN ir.remove_ingredient_internal_ids :
                    catalog.ingredients[ir.remove_ingredient_internal_ids[j]].state
                        = "missing"

\* C21: a request naming a missing order, and an order-creation request
\* naming a customer, product or ingredient the catalog does not have, are
\* answered with status 404.
C21_NotFoundIs404 ==
    /\ (svc.op \in {"get_order", "get_payment_status", "request_payment", "cancel_order"}
           /\ svc.pre = <<>>) => svc.status_code = 404
    /\ (svc.op = "create_order" /\ NamesMissingEntry) => svc.status_code = 404

====
